---- MODULE Spec2Model ----
(***************************************************************************)
(* The DNS reconciliation pass of process_dns.py, dns_sync_worker.py and   *)
(* run.py: load the script, fetch the rows of the store with               *)
(* processed = false, handle them one after the other against the          *)
(* provider, and mark a row processed when its provider operation          *)
(* succeeded.  HelperSpec runs the helpers of process_dns.py on their own; *)
(* HistorySpec is Spec with the provider's confirmations recorded.         *)
(*                                                                         *)
(* Strings that the code inspects (name, content, zone) are sequences of   *)
(* one-character strings.  The program is single-threaded: one iteration   *)
(* of the for loop is one action, which draws the columns of the row it    *)
(* reads and the answers of the provider and of the store, and leaves the  *)
(* calls it made, in order, in the variables calls and writes until        *)
(* control is back at the for statement.                                   *)
(***************************************************************************)
EXTENDS Integers, Sequences, FiniteSets, TLC

\* ------------------------------------------------------------------ bounds

\* number of rows in the store
NumReq == 2
\* number of passes (invocations of the script, turns of the worker's loop)
MaxPasses == 2
\* largest number of provider records one name lookup returns
MaxMatches == 2
\* longest string a helper under test is given
MaxLen == 4

\* ------------------------------------------------------- program constants

\* record.get("ttl", 3600)
DEFAULT_TTL == 3600
\* resp.status_code == 200
HTTP_OK == 200

\* os.getenv("CLOUDFLARE_ZONE_NAME"): the zone "e.c"
ZONE_NAME == <<"e", ".", "c">>

\* the three scripts that run the pass; the loop of run.py is the loop of
\* dns_sync_worker.py
Variants == {"process_dns", "dns_sync_worker", "run"}

\* ------------------------------------------------------------ str helpers

\* s.endswith(suffix)
EndsWith(s, suffix) ==
    /\ Len(suffix) <= Len(s)
    /\ SubSeq(s, Len(s) - Len(suffix) + 1, Len(s)) = suffix

\* s.startswith(prefix)
StartsWith(s, prefix) ==
    /\ Len(prefix) <= Len(s)
    /\ SubSeq(s, 1, Len(prefix)) = prefix

\* str.lower() on the values of the perform column
Lower(s) ==
    CASE s = "Update" -> "update"
      [] s = "Create" -> "create"
      [] s = "Delete" -> "delete"
      [] OTHER -> s

\* str.upper() on the values of the type column
Upper(s) ==
    CASE s = "mx" -> "MX"
      [] s = "txt" -> "TXT"
      [] s = "ns" -> "NS"
      [] s = "a" -> "A"
      [] OTHER -> s

Digits == {"0", "1", "2", "3", "4", "5", "6", "7", "8", "9"}

DigitVal(c) ==
    CASE c = "0" -> 0 [] c = "1" -> 1 [] c = "2" -> 2 [] c = "3" -> 3
      [] c = "4" -> 4 [] c = "5" -> 5 [] c = "6" -> 6 [] c = "7" -> 7
      [] c = "8" -> 8 [] c = "9" -> 9

\* the value of a string of decimal digits
RECURSIVE DecVal(_)
DecVal(s) ==
    IF s = <<>> THEN 0
    ELSE 10 * DecVal(SubSeq(s, 1, Len(s) - 1)) + DigitVal(s[Len(s)])

\* int(s) succeeds: an optional sign and at least one decimal digit
IsIntLiteral(s) ==
    LET body == IF s # <<>> /\ s[1] \in {"+", "-"} THEN Tail(s) ELSE s
    IN  /\ body # <<>>
        /\ \A i \in 1..Len(body) : body[i] \in Digits

\* int(s), for an s that IsIntLiteral
IntOf(s) ==
    IF s[1] = "-" THEN 0 - DecVal(Tail(s))
    ELSE IF s[1] = "+" THEN DecVal(Tail(s))
    ELSE DecVal(s)

\* content.split(" ", 1): one part when there is no space, else two
Split1(content) ==
    LET spaces == {i \in 1..Len(content) : content[i] = " "}
    IN  IF spaces = {} THEN <<content>>
        ELSE LET k == CHOOSE i \in spaces : \A j \in spaces : i <= j
             IN  <<SubSeq(content, 1, k - 1), SubSeq(content, k + 1, Len(content))>>

\* ------------------------------------------------------- process_dns helpers

\* parse_mx_content with a fallback in place of the ValueError: priority 0
\* and the last part as the host
parse_mx_content_lenient(content) ==
    LET parts == Split1(content)
    IN  [ok |-> TRUE,
         priority |-> IF IsIntLiteral(parts[1]) THEN IntOf(parts[1]) ELSE 0,
         host |-> parts[Len(parts)]]

\* parse_mx_content splitting at the last space: content.rsplit(" ", 1)
parse_mx_content_rsplit(content) ==
    LET spaces == {i \in 1..Len(content) : content[i] = " "}
        k == CHOOSE i \in spaces : \A j \in spaces : j <= i
        first == SubSeq(content, 1, k - 1)
    IN  IF spaces # {} /\ IsIntLiteral(first)
        THEN [ok |-> TRUE, priority |-> IntOf(first),
              host |-> SubSeq(content, k + 1, Len(content))]
        ELSE [ok |-> FALSE, priority |-> 0, host |-> <<>>]

\* parse_mx_content: ok = FALSE stands for the ValueError it raises
parse_mx_content(content) ==
    LET parts == Split1(content)
    IN  IF IsIntLiteral(parts[1]) /\ Len(parts) >= 2
        THEN [ok |-> TRUE, priority |-> IntOf(parts[1]), host |-> parts[2]]
        ELSE [ok |-> FALSE, priority |-> 0, host |-> <<>>]

fix_proxied(record_type, proxied) ==
    IF record_type \in {"MX", "TXT", "NS"} THEN FALSE ELSE proxied

\* full_name_for_cf without its endswith test
full_name_for_cf_append(name) == name \o <<".">> \o ZONE_NAME

full_name_for_cf(name) ==
    IF EndsWith(name, ZONE_NAME) THEN name ELSE name \o <<".">> \o ZONE_NAME

\* the TXT branch testing the opening quote alone
QuoteTxtStartOnly(content) ==
    IF StartsWith(content, <<"\"">>) THEN content
    ELSE <<"\"">> \o content \o <<"\"">>

\* the TXT branch of the content handling: wrap in double quotes unless wrapped
QuoteTxt(content) ==
    IF StartsWith(content, <<"\"">>) /\ EndsWith(content, <<"\"">>)
    THEN content
    ELSE <<"\"">> \o content \o <<"\"">>

\* ------------------------------------------------------------ the store

Ids == 1..NumReq

Performs == {"create", "Update", "delete", "purge"}
Types == {"A", "mx", "TXT", "NS"}
\* "w", "w.e.c" (in the zone, fully qualified), "xe.c" (ends with the zone's name)
Names == {<<"w">>, <<"w", ".", "e", ".", "c">>, <<"x", "e", ".", "c">>}

\* "10 m", "m" (no separator), "x m" (priority not an integer), "\"m\"" (quoted)
Contents ==
    {<<"1", "0", " ", "m">>, <<"m">>, <<"x", " ", "m">>, <<"\"", "m", "\"">>}

\* The columns of a row that whoever enqueues the request writes.  The pass
\* reads them once per fetch, in the iteration for the row.
Columns ==
    [perform : Performs, type : Types, name : Names, content : Contents,
     ttl : {DEFAULT_TTL}, proxied : BOOLEAN]

\* a row of the table "records" as a pass fetched it
Row(id, cols) ==
    [id |-> id, perform |-> cols.perform, type |-> cols.type, name |-> cols.name,
     content |-> cols.content, ttl |-> cols.ttl, proxied |-> cols.proxied,
     processed |-> FALSE]

\* before the first iteration of a pass no row has been read
NoRecord ==
    [id |-> 0, perform |-> "", type |-> "", name |-> <<>>, content |-> <<>>,
     ttl |-> 0, proxied |-> FALSE, processed |-> FALSE]

\* ------------------------------------------------------------ the provider

\* a response of the provider; raised stands for an exception of the call
Response(raised, status, success, result) ==
    [raised |-> raised, status |-> status, success |-> success, result |-> result]

RaisedResponse == Response(TRUE, 0, "none", <<>>)

\* What a create, replace or delete call can answer: 200 with success true,
\* 200 or an error status without a success field, an error status with
\* success false, or an exception.  The provider's status and success field
\* agree: it sends success false with an error status only.
CallOutcomes ==
    {Response(FALSE, HTTP_OK, "true", <<>>), Response(FALSE, HTTP_OK, "none", <<>>),
     Response(FALSE, 400, "false", <<>>), Response(FALSE, 400, "none", <<>>),
     RaisedResponse}

ProviderIds == 1..MaxMatches

\* the lists of provider record ids a lookup can return
MatchLists ==
    UNION {{s \in [1..n -> ProviderIds] : \A i, j \in 1..n : i # j => s[i] # s[j]} :
             n \in 0..MaxMatches}

LookupOutcomes ==
    {Response(FALSE, HTTP_OK, "true", m) : m \in MatchLists} \cup {RaisedResponse}

\* the store's update call returns or raises
WriteOutcomes == {"ok", "raise"}

\* one call to the provider, as the pass made it
Call(kind, req, name, payload, target, resp) ==
    [kind |-> kind, req |-> req, name |-> name, payload |-> payload,
     target |-> target, resp |-> resp]

\* ------------------------------------------------- one request's provider calls

\* the MX parse before the try block of process_dns.py raises ValueError
ValidationFails(v, record) ==
    /\ v = "process_dns"
    /\ Upper(record.type) = "MX"
    /\ ~parse_mx_content(record.content).ok

\* the dict data of process_dns.py with the zone-normalized name in it
BasePayloadNormalized(v, record) ==
    LET rtype == Upper(record.type)
        mx == parse_mx_content(record.content)
    IN  IF v = "process_dns"
        THEN [type |-> rtype,
              name |-> full_name_for_cf(record.name),
              ttl |-> record.ttl,
              proxied |-> fix_proxied(rtype, record.proxied),
              priority |-> IF rtype = "MX" THEN <<mx.priority>> ELSE <<>>,
              content |-> IF rtype = "MX" THEN mx.host
                          ELSE IF rtype = "TXT" THEN QuoteTxt(record.content)
                          ELSE record.content]
        ELSE [type |-> record.type, name |-> record.name, ttl |-> record.ttl,
              proxied |-> record.proxied, priority |-> <<>>,
              content |-> record.content]

\* the dict data: built with fix_proxied and the per-type content handling in
\* process_dns.py, copied from the row in dns_sync_worker.py
BasePayload(v, record) ==
    IF v = "process_dns"
    THEN LET rtype == Upper(record.type)
             mx == parse_mx_content(record.content)
         IN  [type |-> rtype,
              name |-> record.name,
              ttl |-> record.ttl,
              proxied |-> fix_proxied(rtype, record.proxied),
              priority |-> IF rtype = "MX" THEN <<mx.priority>> ELSE <<>>,
              content |-> IF rtype = "MX" THEN mx.host
                          ELSE IF rtype = "TXT" THEN QuoteTxt(record.content)
                          ELSE record.content]
    ELSE [type |-> record.type,
          name |-> record.name,
          ttl |-> record.ttl,
          proxied |-> record.proxied,
          priority |-> <<>>,
          content |-> record.content]

\* the name the update and delete branches look up
LookupName(v, record) ==
    IF v = "process_dns" THEN full_name_for_cf(record.name) ELSE record.name

\* A branch's result: the calls it made, how it ended ("resp": with a response
\* to judge, "raised": in the except clause, "continue": skipped by continue)
\* and the response it ended with.
Branch(calls, end, resp) == [calls |-> calls, end |-> end, resp |-> resp]

\* the retry condition of the create branch: only process_dns.py retries
RetriesCreate(v, data, r1) ==
    v = "process_dns" /\ r1.success # "true" /\ data.proxied

\* perform == "create": r1 answers the create call, r2 the retried one
CreateBranch(v, record, r1, r2) ==
    LET data == BasePayload(v, record)
        first == Call("create", record.id, <<>>, <<data>>, <<>>, r1)
        retry == Call("create", record.id, <<>>,
                      <<[data EXCEPT !.proxied = FALSE]>>, <<>>, r2)
    IN  IF r1.raised THEN Branch(<<first>>, "raised", r1)
        ELSE IF RetriesCreate(v, data, r1)
        THEN Branch(<<first, retry>>, IF r2.raised THEN "raised" ELSE "resp", r2)
        ELSE Branch(<<first>>, "resp", r1)

\* the update branch with the retry of the create branch copied into it
UpdateBranchRetrying(v, record, lk, r) ==
    LET data == BasePayload(v, record)
        record_name == LookupName(v, record)
        find == Call("lookup", record.id, record_name, <<>>, <<>>, lk)
    IN  IF lk.raised THEN Branch(<<find>>, "raised", lk)
        ELSE IF lk.result = <<>> THEN Branch(<<find>>, "continue", lk)
        ELSE LET cf_id == lk.result[1]
                 put == Call("replace", record.id, <<>>, <<data>>, <<cf_id>>, r)
                 again == Call("replace", record.id, <<>>,
                               <<[data EXCEPT !.proxied = FALSE]>>, <<cf_id>>, r)
             IN  IF r.raised THEN Branch(<<find, put>>, "raised", r)
                 ELSE IF r.success # "true" /\ data.proxied
                 THEN Branch(<<find, put, again>>, "resp", r)
                 ELSE Branch(<<find, put>>, "resp", r)

\* perform == "update": lk answers the lookup, r the replace call
UpdateBranch(v, record, lk, r) ==
    LET data == BasePayload(v, record)
        record_name == LookupName(v, record)
        find == Call("lookup", record.id, record_name, <<>>, <<>>, lk)
        sent == IF v = "process_dns" THEN [data EXCEPT !.name = record_name] ELSE data
    IN  IF lk.raised THEN Branch(<<find>>, "raised", lk)
        ELSE IF lk.result = <<>> THEN Branch(<<find>>, "continue", lk)
        ELSE LET cf_id == lk.result[1]
                 put == Call("replace", record.id, <<>>, <<sent>>, <<cf_id>>, r)
             IN  Branch(<<find, put>>, IF r.raised THEN "raised" ELSE "resp", r)

\* the delete branch taking a record that is not found for deleted already
DeleteBranchMissIsDone(v, record, lk, r) ==
    LET record_name == LookupName(v, record)
        find == Call("lookup", record.id, record_name, <<>>, <<>>, lk)
    IN  IF lk.raised THEN Branch(<<find>>, "raised", lk)
        ELSE IF lk.result = <<>>
        THEN Branch(<<find>>, "resp", Response(FALSE, HTTP_OK, "true", <<>>))
        ELSE LET cf_id == lk.result[1]
                 del == Call("delete", record.id, <<>>, <<>>, <<cf_id>>, r)
             IN  Branch(<<find, del>>, IF r.raised THEN "raised" ELSE "resp", r)

\* the delete branch addressing the provider by the store's record_id
DeleteBranchByRecordId(v, record, lk, r) ==
    LET record_name == LookupName(v, record)
        find == Call("lookup", record.id, record_name, <<>>, <<>>, lk)
    IN  IF lk.raised THEN Branch(<<find>>, "raised", lk)
        ELSE IF lk.result = <<>> THEN Branch(<<find>>, "continue", lk)
        ELSE LET del == Call("delete", record.id, <<>>, <<>>, <<record.id>>, r)
             IN  Branch(<<find, del>>, IF r.raised THEN "raised" ELSE "resp", r)

\* perform == "delete": lk answers the lookup, r the delete call
DeleteBranch(v, record, lk, r) ==
    LET record_name == LookupName(v, record)
        find == Call("lookup", record.id, record_name, <<>>, <<>>, lk)
    IN  IF lk.raised THEN Branch(<<find>>, "raised", lk)
        ELSE IF lk.result = <<>> THEN Branch(<<find>>, "continue", lk)
        ELSE LET cf_id == lk.result[1]
                 del == Call("delete", record.id, <<>>, <<>>, <<cf_id>>, r)
             IN  Branch(<<find, del>>, IF r.raised THEN "raised" ELSE "resp", r)

\* success taken from the presence of the success field, not from its value
SuccessKeyPresent(v, perform, resp) == resp.success # "none"

\* the variable success of the code
Success(v, perform, resp) ==
    IF v = "process_dns"
    THEN resp.status = HTTP_OK /\ resp.success # "false"
    ELSE IF perform # "delete" THEN resp.success = "true"
         ELSE resp.status = HTTP_OK

\* the update without its eq("id", record_id) filter
MarkProcessedUnfiltered(table, record_id) ==
    [i \in DOMAIN table |-> [table[i] EXCEPT !.processed = TRUE]]

\* the update call filtering by the id of the first row of the table
StoreUpdateFirstRow(record_id, w) ==
    [columns |-> [processed |-> TRUE], id |-> 1, raised |-> (w = "raise")]

\* the update call as the store receives it: the columns it sets, the id its
\* filter names, and whether execute() raised
StoreUpdate(record_id, w) ==
    [columns |-> [processed |-> TRUE], id |-> record_id, raised |-> (w = "raise")]

\* supabase.table("records").update({"processed": True}).eq("id", record_id)
MarkProcessed(table, record_id) ==
    [i \in DOMAIN table |->
        IF table[i].id = record_id THEN [table[i] EXCEPT !.processed = TRUE]
        ELSE table[i]]

\* the select without its eq("processed", False) filter
PendingRowsUnfiltered(table) == table

\* the rows of the table select("*").eq("processed", False) returns
PendingRows(table) == SelectSeq(table, LAMBDA r : ~r.processed)

\* the ids of the pending rows, in table order
FetchPending(table) == [k \in 1..Len(PendingRows(table)) |-> PendingRows(table)[k].id]

\* how the iteration for one record ends, given its branch and the store write
Outcome(v, perform, b, w) ==
    IF b.end = "raised" THEN "error"
    ELSE IF b.end = "continue" THEN "skipped"
    ELSE IF ~Success(v, perform, b.resp) THEN "failed"
    ELSE IF w = "ok" THEN "marked"
    ELSE "write_error"

\* a call that changes the provider's records
IsOperation(c) == c.kind \in {"create", "replace", "delete"}

\* the provider confirmed the operation: status 200 and, but for a delete
\* (which answers with a status alone), success: true in the body
ConfirmedSuccess(c) ==
    /\ IsOperation(c)
    /\ ~c.resp.raised
    /\ c.resp.status = HTTP_OK
    /\ (c.kind = "delete" \/ c.resp.success = "true")

\* the requests of a branch's calls whose operation the provider confirmed
ConfirmedBy(b) ==
    {b.calls[j].req : j \in {k \in 1..Len(b.calls) : ConfirmedSuccess(b.calls[k])}}

\* ------------------------------------------------------------------- state

VARIABLES
    variant,    \* which script runs: "process_dns", "dns_sync_worker" or "run"
    missing,    \* the configuration values that are not set in the environment
    store,      \* the table "records": per row its id and its processed flag
    records,    \* the ids of the rows the current pass fetched, in order
    idx,        \* position in records of the next row of the for loop
    pc,         \* "start" (the script is being loaded), "stopped" (it ended
                \* while loading), "idle", "loop" (at the for statement),
                \* "iterated" (an iteration has ended), "done" (pass over),
                \* "crashed" (uncaught exception)
    passNo,     \* number of passes started
    record,     \* the row the iteration that ran last read
    calls,      \* the provider calls of the iteration that ran last, in order
    writes,     \* the store updates of the iteration that ran last, in order
    outcome,    \* how the iteration that ran last ended
    attempts,   \* per row id, the iterations the current pass ran for it
    history,    \* whether the confirmations of the provider are recorded
    confirmed,  \* when they are: the ids of the requests with an operation the
                \* provider has confirmed, in this pass or an earlier one
    helper,     \* the helper of process_dns.py under test, "none" in a pass
    arg,        \* the string the helper under test is given
    applied     \* the results of applying the helper once, then to its own result

\* the variables of the helpers under test; a pass leaves them alone
helperVars == <<helper, arg, applied>>

vars == <<variant, missing, store, records, idx, pc, passNo, record, calls, writes,
          outcome, attempts, history, confirmed, helper, arg, applied>>

\* the configuration values the scripts read from the environment
ConfigNames == {"store_url", "store_key", "token", "zone"}

\* run.py: if not all([SUPABASE_URL, SUPABASE_KEY, API_TOKEN, ZONE_NAME])
EnvCheckFails(v, unset) == v = "run" /\ unset # {}

\* create_client(SUPABASE_URL, SUPABASE_KEY) raises without a URL or a key
CreateClientRaises(unset) == "store_url" \in unset \/ "store_key" \in unset

\* What the zone lookup can answer: an exception of the request, no zone, or
\* the zone.  The provider gives no zone to a request without a token
\* ("Bearer None") or for the name "None".
ZoneLookupOutcomes(unset) ==
    {"raised", "empty"} \cup
        (IF "token" \in unset \/ "zone" \in unset THEN {} ELSE {"found"})

\* the zone id taken with a default where the lookup gave no zone
ZoneIdDefault(z) == z = "raised"

\* ZONE_ID = zone_resp["result"][0]["id"] raises unless the zone was found
ZoneIdRaises(z) == z # "found"

\* the script ends while it is loaded: by exit(1) in run.py, by an uncaught
\* exception in process_dns.py and dns_sync_worker.py
StartupStops(v, unset, z) ==
    EnvCheckFails(v, unset) \/ CreateClientRaises(unset) \/ ZoneIdRaises(z)

Init ==
    /\ variant \in Variants
    /\ missing \in SUBSET ConfigNames
    /\ store \in {t \in [Ids -> [id : Ids, processed : BOOLEAN]] :
                     \A i \in Ids : t[i].id = i}
    /\ records = <<>>
    /\ idx = 1
    /\ pc = "start"
    /\ passNo = 0
    /\ record = NoRecord
    /\ calls = <<>>
    /\ writes = <<>>
    /\ outcome = "none"
    /\ attempts = [i \in Ids |-> 0]
    /\ history = FALSE
    /\ confirmed = {}
    /\ helper = "none"
    /\ arg = <<>>
    /\ applied = <<>>

\* The script is loaded: the environment is read (and checked, in run.py),
\* the store client is built and the zone id is looked up.
Startup ==
    /\ pc = "start"
    /\ \E z \in ZoneLookupOutcomes(missing) :
          pc' = IF StartupStops(variant, missing, z) THEN "stopped" ELSE "idle"
    /\ UNCHANGED <<variant, missing, history, store, records, idx, passNo, record, calls,
                   writes, outcome, attempts, confirmed, helperVars>>

\* A pass starts: the script is invoked (process_dns.py) or the loop of the
\* worker calls sync_dns again.  With nothing pending the pass is over at once.
Fetch ==
    /\ pc \in {"idle", "done", "crashed"}
    /\ passNo < MaxPasses
    /\ passNo' = passNo + 1
    /\ records' = FetchPending(store)
    /\ idx' = 1
    /\ pc' = IF FetchPending(store) = <<>> THEN "done" ELSE "loop"
    /\ record' = NoRecord
    /\ calls' = <<>>
    /\ writes' = <<>>
    /\ outcome' = "none"
    /\ attempts' = [i \in Ids |-> 0]
    /\ UNCHANGED <<variant, missing, history, store, confirmed, helperVars>>

\* the end of one iteration of the for loop whose branch was b; w answers the
\* store write, which is made only when success is true
Finish(rec, perform, b, w) ==
    LET out == Outcome(variant, perform, b, w)
    IN  /\ record' = rec
        /\ calls' = b.calls
        /\ writes' = IF out \in {"marked", "write_error"}
                     THEN <<StoreUpdate(rec.id, w)>> ELSE <<>>
        /\ outcome' = out
        /\ store' = IF out = "marked" THEN MarkProcessed(store, rec.id) ELSE store
        /\ attempts' = [attempts EXCEPT ![rec.id] = @ + 1]
        /\ confirmed' = IF history THEN confirmed \cup ConfirmedBy(b) ELSE confirmed
        /\ pc' = "iterated"
        /\ UNCHANGED <<variant, missing, history, records, idx, passNo, helperVars>>

\* the answers the retried create call can give; when r1 leads to no retry
\* none is read
RetryOutcomes(v, rec, r1) ==
    IF ~r1.raised /\ RetriesCreate(v, BasePayload(v, rec), r1)
    THEN CallOutcomes ELSE {RaisedResponse}

\* the answers the replace or delete call can give; when the lookup raised
\* or found nothing none is read
OperationOutcomes(lk) ==
    IF ~lk.raised /\ lk.result # <<>> THEN CallOutcomes ELSE {RaisedResponse}

\* the answers the store write can give; without success there is no write
WriteOutcomesOf(v, perform, b) ==
    IF b.end = "resp" /\ Success(v, perform, b.resp) THEN WriteOutcomes ELSE {"ok"}

ProcessCreate ==
    /\ pc = "loop"
    /\ \E cols \in Columns :
          LET rec == Row(records[idx], cols)
              perform == Lower(rec.perform)
          IN  /\ ~ValidationFails(variant, rec)
              /\ perform = "create"
              /\ \E r1 \in CallOutcomes :
                    \E r2 \in RetryOutcomes(variant, rec, r1) :
                       LET b == CreateBranch(variant, rec, r1, r2)
                       IN  \E w \in WriteOutcomesOf(variant, perform, b) :
                              Finish(rec, perform, b, w)

ProcessUpdate ==
    /\ pc = "loop"
    /\ \E cols \in Columns :
          LET rec == Row(records[idx], cols)
              perform == Lower(rec.perform)
          IN  /\ ~ValidationFails(variant, rec)
              /\ perform = "update"
              /\ \E lk \in LookupOutcomes :
                    \E r \in OperationOutcomes(lk) :
                       LET b == UpdateBranch(variant, rec, lk, r)
                       IN  \E w \in WriteOutcomesOf(variant, perform, b) :
                              Finish(rec, perform, b, w)

ProcessDelete ==
    /\ pc = "loop"
    /\ \E cols \in Columns :
          LET rec == Row(records[idx], cols)
              perform == Lower(rec.perform)
          IN  /\ ~ValidationFails(variant, rec)
              /\ perform = "delete"
              /\ \E lk \in LookupOutcomes :
                    \E r \in OperationOutcomes(lk) :
                       LET b == DeleteBranch(variant, rec, lk, r)
                       IN  \E w \in WriteOutcomesOf(variant, perform, b) :
                              Finish(rec, perform, b, w)

\* the else branch: an unknown perform is logged and skipped
ProcessUnknown ==
    /\ pc = "loop"
    /\ \E cols \in Columns :
          LET rec == Row(records[idx], cols)
              perform == Lower(rec.perform)
          IN  /\ ~ValidationFails(variant, rec)
              /\ perform \notin {"create", "update", "delete"}
              /\ Finish(rec, perform, Branch(<<>>, "continue", RaisedResponse), "ok")

\* parse_mx_content raises outside the try block: the script ends there
ValidationError ==
    /\ pc = "loop"
    /\ \E cols \in Columns :
          LET rec == Row(records[idx], cols)
          IN  /\ ValidationFails(variant, rec)
              /\ record' = rec
              /\ calls' = <<>>
              /\ writes' = <<>>
              /\ outcome' = "crashed"
              /\ attempts' = [attempts EXCEPT ![rec.id] = @ + 1]
              /\ pc' = "crashed"
              /\ UNCHANGED <<variant, missing, history, store, records, idx, passNo,
                             confirmed, helperVars>>

\* control is back at the for statement: the loop takes the next row, or
\* ends after the last one
Advance ==
    /\ pc = "iterated"
    /\ idx' = idx + 1
    /\ pc' = IF idx = Len(records) THEN "done" ELSE "loop"
    /\ record' = NoRecord
    /\ calls' = <<>>
    /\ writes' = <<>>
    /\ outcome' = "none"
    /\ UNCHANGED <<variant, missing, history, store, records, passNo, attempts, confirmed,
                   helperVars>>

Next ==
    \/ Startup
    \/ Fetch
    \/ Advance
    \/ ProcessCreate
    \/ ProcessUpdate
    \/ ProcessDelete
    \/ ProcessUnknown
    \/ ValidationError

Spec == Init /\ [][Next]_vars

\* the scripts with the configuration complete and the provider's
\* confirmations recorded
HistoryInit ==
    /\ variant \in Variants
    /\ missing = {}
    /\ store \in {t \in [Ids -> [id : Ids, processed : BOOLEAN]] :
                     \A i \in Ids : t[i].id = i}
    /\ records = <<>>
    /\ idx = 1
    /\ pc = "start"
    /\ passNo = 0
    /\ record = NoRecord
    /\ calls = <<>>
    /\ writes = <<>>
    /\ outcome = "none"
    /\ attempts = [i \in Ids |-> 0]
    /\ history = TRUE
    /\ confirmed = {}
    /\ helper = "none"
    /\ arg = <<>>
    /\ applied = <<>>

HistorySpec == HistoryInit /\ [][Next]_vars

TypeOK ==
    /\ variant \in Variants
    /\ idx \in 1..(NumReq + 1)
    /\ missing \subseteq ConfigNames
    /\ pc \in {"start", "stopped", "idle", "loop", "iterated", "done", "crashed"}
    /\ passNo \in 0..MaxPasses
    /\ Len(records) <= NumReq
    /\ Len(calls) <= 2
    /\ Len(writes) <= 1

\* ------------------------------------------------- the helpers on their own

\* the characters of the strings the helpers are given
Chars == {"\"", " ", "0", "1", "-", "m", ".", "e", "c"}

\* the strings of at most MaxLen characters
Strings == UNION {[1..n -> Chars] : n \in 0..MaxLen}

\* what a repeated application is given: the argument, then the last result
LastOf(a, results) == IF results = <<>> THEN a ELSE results[Len(results)]

\* process_dns.py is loaded with nothing pending, and one helper is given arg
HelperInit ==
    /\ variant = "process_dns"
    /\ missing = {}
    /\ store = [i \in Ids |-> [id |-> i, processed |-> TRUE]]
    /\ records = <<>>
    /\ idx = 1
    /\ pc = "idle"
    /\ passNo = 0
    /\ record = NoRecord
    /\ calls = <<>>
    /\ writes = <<>>
    /\ outcome = "none"
    /\ attempts = [i \in Ids |-> 0]
    /\ history = FALSE
    /\ confirmed = {}
    /\ helper = "none"
    /\ arg \in Strings
    /\ applied = <<>>

passVars == <<variant, missing, store, records, idx, pc, passNo, record, calls, writes,
              outcome, attempts, history, confirmed>>

\* the TXT content handling, applied to arg and then to its own result
ApplyQuoteTxt ==
    /\ helper \in {"none", "quote_txt"}
    /\ Len(applied) < 2
    /\ helper' = "quote_txt"
    /\ applied' = Append(applied, QuoteTxt(LastOf(arg, applied)))
    /\ UNCHANGED <<arg, passVars>>

\* full_name_for_cf, applied to arg and then to its own result
ApplyFullName ==
    /\ helper \in {"none", "full_name_for_cf"}
    /\ Len(applied) < 2
    /\ helper' = "full_name_for_cf"
    /\ applied' = Append(applied, full_name_for_cf(LastOf(arg, applied)))
    /\ UNCHANGED <<arg, passVars>>

\* parse_mx_content, applied to arg
ApplyParseMx ==
    /\ helper = "none"
    /\ helper' = "parse_mx_content"
    /\ applied' = <<parse_mx_content(arg)>>
    /\ UNCHANGED <<arg, passVars>>

HelperNext ==
    \/ ApplyQuoteTxt
    \/ ApplyFullName
    \/ ApplyParseMx

HelperSpec == HelperInit /\ [][HelperNext]_vars

\* ------------------------------------------------------------------ claims

\* the row with the given id is marked processed in the store
Processed(id) == \E i \in DOMAIN store : store[i].id = id /\ store[i].processed

\* the provider answered the call with a success: status 200, and no
\* success: false in the body
ReturnedSuccess(c) ==
    ~c.resp.raised /\ c.resp.status = HTTP_OK /\ c.resp.success # "false"

\* the provider rejected the call: an error status or success: false
Rejected(c) ==
    ~c.resp.raised /\ (c.resp.status # HTTP_OK \/ c.resp.success = "false")

\* the provider answered the call with success: true
Accepted(c) == ~c.resp.raised /\ c.resp.success = "true"

CountKind(kind) == Cardinality({j \in 1..Len(calls) : calls[j].kind = kind})

\* C1: a row turns processed only in the iteration for its own request and
\* only after the last provider operation of that iteration (the retried create
\* included) returned success; an iteration whose last call was rejected or
\* raised leaves the store as it was.
C1_OnlyIfSuccess ==
    [][/\ \A i \in DOMAIN store :
             (~store[i].processed /\ store'[i].processed) =>
                 /\ calls' # <<>>
                 /\ record'.id = store[i].id
                 /\ calls'[Len(calls')].req = store[i].id
                 /\ IsOperation(calls'[Len(calls')])
                 /\ ReturnedSuccess(calls'[Len(calls')])
       /\ (calls' # <<>> /\ ~ReturnedSuccess(calls'[Len(calls')])) => store' = store
      ]_vars

\* C1 witness: a create was rejected, retried, and the row marked processed
C1_Witness ==
    /\ Len(calls) = 2
    /\ calls[1].kind = "create"
    /\ calls[1].resp.success = "false"
    /\ ReturnedSuccess(calls[2])
    /\ Processed(record.id)

\* C2 (as stated): once the provider has confirmed a request's operation the
\* row is processed when the iteration is over.
C2_Original ==
    (variant = "process_dns" /\ \E j \in 1..Len(calls) : ConfirmedSuccess(calls[j]))
        => Processed(record.id)

\* C3 (as stated): when a pass is over, every fetched request has been attempted.
C3_Original ==
    (variant = "process_dns" /\ pc \in {"done", "crashed"})
        => \A k \in 1..Len(records) : attempts[records[k]] >= 1

\* C4 (as stated): a create whose first call is rejected with proxied = true
\* is followed by exactly one create call, with proxied = false; a create whose
\* first call was accepted, raised or had proxied = false by none; and no
\* request makes more than two create calls.
C4_Original ==
    (calls # <<>> /\ calls[1].kind = "create") =>
        /\ (Rejected(calls[1]) /\ calls[1].payload[1].proxied)
              => /\ Len(calls) = 2
                 /\ calls[2].kind = "create"
                 /\ ~calls[2].payload[1].proxied
        /\ (Accepted(calls[1]) \/ calls[1].resp.raised \/ ~calls[1].payload[1].proxied)
              => Len(calls) = 1
        /\ CountKind("create") <= 2

\* C5 (as stated): a lookup with more than one match is followed by no
\* replace or delete call and the row stays pending.
C5_Original ==
    (calls # <<>> /\ calls[1].kind = "lookup" /\ Len(calls[1].resp.result) > 1)
        => /\ Len(calls) = 1
           /\ ~Processed(record.id)

\* C6: a lookup with zero matches is followed by no replace or delete call and
\* by no store write, the row stays pending, no exception ends the iteration
\* and the loop has moved past the request.
C6_LookupMiss ==
    (/\ calls # <<>>
     /\ calls[1].kind = "lookup"
     /\ ~calls[1].resp.raised
     /\ calls[1].resp.result = <<>>)
        => /\ Len(calls) = 1
           /\ writes = <<>>
           /\ ~Processed(record.id)
           /\ outcome = "skipped"
           /\ pc = "iterated"
           /\ records[idx] = record.id

\* C6 witness: a delete request whose lookup found nothing, with the next
\* request still to come
C6_Witness ==
    /\ calls # <<>>
    /\ calls[1].kind = "lookup"
    /\ ~calls[1].resp.raised
    /\ calls[1].resp.result = <<>>
    /\ Lower(record.perform) = "delete"
    /\ idx < Len(records)

\* the content has no space
NoSeparator(content) == \A i \in 1..Len(content) : content[i] # " "

\* the part before the first space is not an integer
NonIntegerPriority(content) ==
    \E k \in 1..Len(content) :
        /\ content[k] = " "
        /\ \A j \in 1..(k - 1) : content[j] # " "
        /\ ~IsIntLiteral(SubSeq(content, 1, k - 1))

MalformedMx(row) ==
    /\ Upper(row.type) = "MX"
    /\ (NoSeparator(row.content) \/ NonIntegerPriority(row.content))

C8_Original ==
    \A j \in 1..Len(calls) :
        (calls[j].payload # <<>> /\ Upper(record.type) \in {"MX", "TXT", "NS"})
            => ~calls[j].payload[1].proxied

\* C9: a step changes the store only by setting processed = true on the row of
\* the request whose iteration it is, after a success; every store update sets
\* the column processed alone and names that request's id; no row is removed,
\* and an iteration without success makes no store update.
C9_OnlyProcessedFlag ==
    [][/\ DOMAIN store' = DOMAIN store
       /\ \A i \in DOMAIN store :
             store'[i] # store[i] =>
                 /\ store'[i] = [store[i] EXCEPT !.processed = TRUE]
                 /\ store[i].id = record'.id
                 /\ calls' # <<>>
                 /\ ReturnedSuccess(calls'[Len(calls')])
       /\ \A k \in 1..Len(writes') :
             /\ writes'[k].columns = [processed |-> TRUE]
             /\ writes'[k].id = record'.id
       /\ (\/ outcome' \in {"failed", "error", "skipped", "crashed"}
           \/ calls' = <<>>
           \/ ~ReturnedSuccess(calls'[Len(calls')]))
             => (writes' = <<>> /\ store' = store)
      ]_vars

\* C9 witness: the second row was marked while the first one is still pending
C9_Witness ==
    /\ variant = "process_dns"
    /\ outcome = "marked"
    /\ writes # <<>>
    /\ Processed(record.id)
    /\ \E j \in DOMAIN store : store[j].id < record.id /\ ~store[j].processed

\* C10: one iteration makes at most one lookup, one replace and one delete
\* call, at most two create calls, all for its own request, and a pass runs at
\* most one iteration for a row.
C10_NoRetryInPass ==
    /\ CountKind("lookup") <= 1
    /\ CountKind("replace") <= 1
    /\ CountKind("delete") <= 1
    /\ CountKind("create") <= 2
    /\ \A j \in 1..Len(calls) : calls[j].req = record.id
    /\ \A i \in Ids : attempts[i] <= 1

\* C10 witness: an update whose replace call was rejected, in a second pass
C10_Witness ==
    /\ passNo = 2
    /\ Len(calls) = 2
    /\ calls[2].kind = "replace"
    /\ calls[2].resp.success = "false"
    /\ calls[2].payload[1].proxied
    /\ idx = Len(records)

\* a double quote
Quote == "\""

\* C11: the TXT content handling returns a content that starts and ends with
\* a double quote: the content itself when its first and its last character
\* are double quotes, else the content between two double quotes; applied to
\* its own result it returns that result.
C11_QuoteIdempotent ==
    helper = "quote_txt" =>
        LET c == arg
            q == applied[1]
        IN  /\ Len(q) >= 1
            /\ q[1] = Quote
            /\ q[Len(q)] = Quote
            /\ (Len(c) >= 1 /\ c[1] = Quote /\ c[Len(c)] = Quote) => q = c
            /\ (c = <<>> \/ c[1] # Quote \/ c[Len(c)] # Quote)
                  => /\ Len(q) = Len(c) + 2
                     /\ \A i \in 1..Len(c) : q[i + 1] = c[i]
            /\ Len(applied) = 2 => applied[2] = applied[1]

\* C11 witness: a content that opens with a quote but does not close with one
\* was wrapped, and the result was handled again
C11_Witness ==
    /\ helper = "quote_txt"
    /\ arg = <<"\"", "m">>
    /\ Len(applied) = 2
    /\ applied[1] = <<"\"", "\"", "m", "\"">>

\* the last Len(ZONE_NAME) characters of s are the zone's name
EndsWithZone(s) ==
    /\ Len(s) >= Len(ZONE_NAME)
    /\ \A i \in 1..Len(ZONE_NAME) : s[Len(s) - Len(ZONE_NAME) + i] = ZONE_NAME[i]

\* C12: full_name_for_cf returns a name that ends with the zone's name: the
\* name itself when it ends with the zone's name, else the name, a dot and the
\* zone's name; applied to its own result it returns that result.
C12_FullNameIdempotent ==
    helper = "full_name_for_cf" =>
        LET n == arg
            f == applied[1]
        IN  /\ EndsWithZone(f)
            /\ EndsWithZone(n) => f = n
            /\ ~EndsWithZone(n)
                  => /\ Len(f) = Len(n) + 1 + Len(ZONE_NAME)
                     /\ SubSeq(f, 1, Len(n)) = n
                     /\ f[Len(n) + 1] = "."
            /\ Len(applied) = 2 => applied[2] = applied[1]

\* C12 witness: a name outside the zone was completed, and the result was
\* given to full_name_for_cf again
C12_Witness ==
    /\ helper = "full_name_for_cf"
    /\ arg = <<"m">>
    /\ Len(applied) = 2
    /\ applied[1] = <<"m", ".", "e", ".", "c">>

\* C13: parse_mx_content raises for a content without a space and for one
\* whose part before the first space is not an integer; any other content it
\* splits at its first space into that integer and the rest; "10 m" gives
\* priority 10 and target "m".
C13_ParseMx ==
    helper = "parse_mx_content" =>
        LET r == applied[1]
        IN  /\ (NoSeparator(arg) \/ NonIntegerPriority(arg)) => ~r.ok
            /\ ~(NoSeparator(arg) \/ NonIntegerPriority(arg))
                  => /\ r.ok
                     /\ \E k \in 1..Len(arg) :
                           /\ arg[k] = " "
                           /\ \A j \in 1..(k - 1) : arg[j] # " "
                           /\ r.priority = IntOf(SubSeq(arg, 1, k - 1))
                           /\ r.host = SubSeq(arg, k + 1, Len(arg))
            /\ arg = <<"1", "0", " ", "m">>
                  => r = [ok |-> TRUE, priority |-> 10, host |-> <<"m">>]

\* C13 witness: "10 m" was parsed
C13_Witness ==
    /\ helper = "parse_mx_content"
    /\ arg = <<"1", "0", " ", "m">>
    /\ applied[1].ok

\* C14 (as stated): a create call submits the request's name as given, and no
\* submitted payload carries the zone-normalized name of a request whose name
\* normalization changes.
C14_Original ==
    \A j \in 1..Len(calls) :
        /\ calls[j].kind = "create" => calls[j].payload[1].name = record.name
        /\ (calls[j].payload # <<>> /\ full_name_for_cf(record.name) # record.name)
              => calls[j].payload[1].name # full_name_for_cf(record.name)

\* C14 (amended): in process_dns.py a create call submits the request's name
\* as given; the lookup of an update or delete request asks for the
\* zone-normalized name, and the replace call of an update submits the
\* zone-normalized name in its payload.
C14_NameUse ==
    variant = "process_dns" =>
        \A j \in 1..Len(calls) :
            /\ calls[j].kind = "create" => calls[j].payload[1].name = record.name
            /\ calls[j].kind = "lookup"
                  => /\ calls[j].name = full_name_for_cf(record.name)
                     /\ Lower(record.perform) \in {"update", "delete"}
            /\ calls[j].kind = "replace"
                  => calls[j].payload[1].name = full_name_for_cf(record.name)
            /\ calls[j].kind = "delete" => calls[j].payload = <<>>

\* C14 witness: the update of "w" looked up and replaced "w.e.c"
C14_Witness ==
    /\ variant = "process_dns"
    /\ record.name = <<"w">>
    /\ Len(calls) = 2
    /\ calls[1].name = <<"w", ".", "e", ".", "c">>
    /\ calls[2].kind = "replace"
    /\ calls[2].payload[1].name = <<"w", ".", "e", ".", "c">>

C16_TargetFromLookup ==
    \A j \in 1..Len(calls) :
        calls[j].kind \in {"replace", "delete"} =>
            /\ Len(calls[j].target) = 1
            /\ \E i \in 1..(j - 1) :
                  /\ calls[i].kind = "lookup"
                  /\ calls[i].req = calls[j].req
                  /\ calls[i].req = record.id
                  /\ calls[i].name \in {record.name, full_name_for_cf(record.name)}
                  /\ ~calls[i].resp.raised
                  /\ \E k \in 1..Len(calls[i].resp.result) :
                        calls[i].resp.result[k] = calls[j].target[1]

\* C16 witness: in a second pass the delete for row 1 addressed provider
\* record 2, which its lookup had returned
C16_Witness ==
    /\ passNo = 2
    /\ record.id = 1
    /\ Len(calls) = 2
    /\ calls[1].resp.result = <<2>>
    /\ calls[2].kind = "delete"
    /\ calls[2].target = <<2>>

\* C17 (as stated): when a pass has ended, every row that is still pending
\* was fetched by that pass and had its iteration run in it.
C17_Original ==
    pc \in {"done", "crashed"} =>
        \A i \in Ids :
            ~Processed(i) =>
                /\ \E k \in 1..Len(records) : records[k] = i
                /\ attempts[i] >= 1

\* C18: the provider calls and the store write a state shows all belong to
\* the one request whose iteration has just run; the requests before it in the
\* pass have had their iteration, once, and no request after it has had any
\* call made or row written; a pass holds no request twice.
C18_OneAtATime ==
    /\ \A j \in 1..Len(calls) : calls[j].req = record.id
    /\ \A k \in 1..Len(writes) : writes[k].id = record.id
    /\ (calls # <<>> \/ writes # <<>>)
          => (pc = "iterated" /\ records[idx] = record.id)
    /\ \A k, l \in 1..Len(records) : records[k] = records[l] => k = l
    /\ \A k \in 1..Len(records) :
          attempts[records[k]] =
              IF k < idx \/ (k = idx /\ pc \in {"iterated", "crashed"}) THEN 1 ELSE 0

\* C18 witness: the second request of a pass was created and marked after
\* the first one, whose lookup had found nothing
C18_Witness ==
    /\ Len(records) = 2
    /\ idx = 2
    /\ attempts[records[1]] = 1
    /\ Len(calls) = 1
    /\ calls[1].kind = "create"
    /\ calls[1].req = records[2]
    /\ Len(writes) = 1
    /\ ~writes[1].raised
    /\ ~Processed(records[1])

\* C19: no step turns a processed row back to pending; a pass fetches no
\* processed row; and no iteration runs, and so no provider call is made, for
\* a row that was processed before the iteration began.
C19_ProcessedMonotonic ==
    [][/\ \A i \in DOMAIN store :
             store[i].processed => (i \in DOMAIN store' /\ store'[i].processed)
       /\ passNo' # passNo
             => \A k \in 1..Len(records') : ~Processed(records'[k])
       /\ (pc = "loop" /\ pc' # "loop") => ~Processed(record'.id)
       /\ (calls' # <<>> /\ calls' # calls)
             => \A j \in 1..Len(calls') : ~Processed(calls'[j].req)
      ]_vars

\* C19 witness: a second pass handles row 2 while row 1 is processed and was
\* not fetched
C19_Witness ==
    /\ passNo = 2
    /\ Processed(1)
    /\ records = <<2>>
    /\ calls # <<>>
    /\ record.id = 2

\* C20 (as stated): no step has the provider confirm an operation of a request
\* that already had an operation confirmed, and no iteration has two
\* operations confirmed.
C20_Original ==
    [][(pc = "loop" /\ pc' = "iterated") =>
          /\ \A j \in 1..Len(calls') :
                ConfirmedSuccess(calls'[j]) => calls'[j].req \notin confirmed
          /\ Cardinality({j \in 1..Len(calls') : ConfirmedSuccess(calls'[j])}) <= 1
      ]_vars

\* C21 (as stated): the iteration for a request whose perform is none of
\* create, update and delete makes no provider call and no store write, leaves
\* the row pending, and ends with the loop going on to the next request.
C21_Original ==
    (record.id \in Ids /\ Lower(record.perform) \notin {"create", "update", "delete"})
        => /\ calls = <<>>
           /\ writes = <<>>
           /\ ~Processed(record.id)
           /\ outcome = "skipped"
           /\ pc = "iterated"

====
